---- MODULE Spec2Model ----
(***************************************************************************)
(* A model of the SIR epidemic engine and the centrality analyzer of       *)
(* src/src/sir_model.rs (SIRModel) over a petgraph undirected graph.       *)
(*                                                                         *)
(* Probabilities and random draws are exact rationals with denominator     *)
(* Den: beta and gamma are numerators in 0..Den (the interval [0,1]) and   *)
(* one draw of rng.gen::<f64>() is a numerator in 0..Den-1 (the interval   *)
(* [0,1)).  Comparisons of the code are cross-multiplied to integers.      *)
(*                                                                         *)
(* state_map is a std HashMap: the order in which iter() yields its keys   *)
(* is not fixed by the keys, so a round visits the nodes in any order.     *)
(* thread_rng() is an ambient source: each draw is any value of Draws.     *)
(***************************************************************************)
EXTENDS Integers, Sequences, FiniteSets, TLC

\* ------------------------------------------------------------------ bounds
MaxNodes == 3
MaxEdges == 2
MaxSteps == 2
Den == 2

\* ------------------------------------------------------------------- state
VARIABLES
    graph,              \* SIRModel.graph: [nodes, edges]
    time_steps,         \* SIRModel.time_steps
    beta,               \* SIRModel.beta, as beta / Den
    gamma,              \* SIRModel.gamma, as gamma / Den
    state_map,          \* simulate: the snapshot, index -> PersonState
    new_state_map,      \* simulate: the clone updated during one round
    pending,            \* simulate: keys state_map.iter() has not yet yielded
    step,               \* simulate: iterations of `for _ in 0..time_steps` done
    pc,                 \* position: "new", "loop", "visit", "done"
    degree_centrality,  \* <<>> or <<result of calculate_degree_centrality>>
    graph0,             \* history: the graph handed to SIRModel::new
    draws,              \* history: the draws of rng taken so far (SpecDet only)
    betweenness_centrality, \* <<>> or <<result of calculate_betweenness_centrality>>
    main_idx,           \* main: idx, the node the edge generator is working on
    connections         \* main: edges the generator has added for idx

vars == <<graph, time_steps, beta, gamma, state_map, new_state_map, pending,
          step, pc, degree_centrality, graph0, draws,
          betweenness_centrality, main_idx, connections>>

\* ------------------------------------------------------------------- types
State == {"Susceptible", "Infected", "Recovered"}

PersonState(id, state) == [id |-> id, state |-> state]

\* The one edge weight the test graph uses (frequency 5, strength 0.5).  A
\* strength is kept in thousandths, so that strengths below 0.01 exist.
Interaction == {[frequency |-> 5, strength |-> 500]}

NodeIndices(g) == DOMAIN g.nodes

EdgeIndices(g) == DOMAIN g.edges

\* ------------------------------------------------- petgraph, undirected
\* The edges the iterators of an undirected Graph yield for node a: the
\* edges leaving a, then the edges entering a that do not also leave it (a
\* self-loop is yielded once).
IncidentEdges(g, a) ==
    {i \in EdgeIndices(g) : g.edges[i].source = a \/ g.edges[i].target = a}

\* The node an edge incident to a leads to.
OtherEnd(e, a) == IF e.source = a THEN e.target ELSE e.source

\* InfectedCount over every node of the graph instead of the neighbours.
InfectedCountAll(g, sm, a) ==
    Cardinality({n \in NodeIndices(g) : sm[n].state = "Infected"})

\* graph.neighbors(a).filter(|n| state_map[n].state == Infected).count()
InfectedCount(g, sm, a) ==
    Cardinality({i \in IncidentEdges(g, a) :
                    sm[OtherEnd(g.edges[i], a)].state = "Infected"})

\* ------------------------------------------------------------ arithmetic
\* Pow with 0^0 taken as 0.
RECURSIVE PowZeroBase(_, _)
PowZeroBase(b, e) ==
    IF b = 0 THEN 0 ELSE IF e = 0 THEN 1 ELSE b * PowZeroBase(b, e - 1)

\* powi: the empty product is 1, also for the base 0.
RECURSIVE Pow(_, _)
Pow(b, e) == IF e = 0 THEN 1 ELSE b * Pow(b, e - 1)

\* Infects with the probability taken as (1 - beta)^k.
InfectsComplement(r, b, k) == r * Pow(Den, k) < Den * Pow(Den - b, k)

\* Infects with the node itself counted among its contacts.
InfectsOneMore(r, b, k) ==
    r * Pow(Den, k + 1) < Den * (Pow(Den, k + 1) - Pow(Den - b, k + 1))

\* rng.gen::<f64>() < 1.0 - (1.0 - beta).powi(k), for the draw r / Den and
\* beta = b / Den:  r/Den < (Den^k - (Den-b)^k) / Den^k.
Infects(r, b, k) == r * Pow(Den, k) < Den * (Pow(Den, k) - Pow(Den - b, k))

\* Recovers with the comparison turned round.
RecoversReversed(r, c) == r > c

\* rng.gen::<f64>() < gamma, for the draw r / Den and gamma = c / Den.
Recovers(r, c) == r < c

\* NextState with recovery leading back to Susceptible.
NextStateRelapse(s, k, r, b, c) ==
    CASE s = "Susceptible" -> IF Infects(r, b, k) THEN "Infected" ELSE s
      [] s = "Infected"    -> IF Recovers(r, c) THEN "Susceptible" ELSE s
      [] OTHER             -> s

\* The match of one visit: the state the visited node gets in new_state_map.
NextState(s, k, r, b, c) ==
    CASE s = "Susceptible" -> IF Infects(r, b, k) THEN "Infected" ELSE s
      [] s = "Infected"    -> IF Recovers(r, c) THEN "Recovered" ELSE s
      [] OTHER             -> s

\* ----------------------------------------------------------------- inputs
Draws == 0 .. Den - 1

Probabilities == 0 .. Den

Nodes(n) == 0 .. n - 1

\* The edge lists of at most MaxEdges edges, self-loops and parallel edges
\* included.  The graph is undirected, so each edge is listed with its
\* smaller endpoint as the source.
EdgeLists(n) ==
    UNION {[1 .. m -> {e \in [source : Nodes(n), target : Nodes(n), weight : Interaction] :
                          e.source <= e.target}]
             : m \in 0 .. MaxEdges}

\* The first id of a graph of n nodes: main numbers the nodes from 0, by
\* index; the two-node test graph also numbers them 1 and 2.
FirstIds(n) == IF n = 2 THEN {0, 1} ELSE {0}

Graphs ==
    UNION {{[nodes |-> [i \in Nodes(n) |-> PersonState(i + off, st[i])], edges |-> es]
              : st \in [Nodes(n) -> State], es \in EdgeLists(n), off \in FirstIds(n)}
             : n \in 0 .. MaxNodes}

\* SIRModel::new
Init ==
    /\ graph \in Graphs
    /\ time_steps \in 0 .. MaxSteps
    /\ beta \in Probabilities
    /\ gamma \in Probabilities
    /\ state_map = <<>>
    /\ new_state_map = <<>>
    /\ pending = {}
    /\ step = 0
    /\ pc = "new"
    /\ degree_centrality = <<>>
    /\ graph0 = graph
    /\ draws = <<>>
    /\ betweenness_centrality = <<>>
    /\ main_idx = 0
    /\ connections = 0

\* ---------------------------------------------------------------- simulate
\* Snapshot keyed by the id field of the weight instead of the index.
SnapshotById(g) ==
    [id \in {g.nodes[idx].id : idx \in NodeIndices(g)} |->
        g.nodes[CHOOSE idx \in NodeIndices(g) : g.nodes[idx].id = id]]

\* The snapshot collected from node_indices(): index -> clone of the weight.
Snapshot(g) == [idx \in NodeIndices(g) |-> g.nodes[idx]]

BeginSimulate ==
    /\ pc = "new"
    /\ state_map' = Snapshot(graph)
    /\ step' = 0
    /\ pc' = "loop"
    /\ UNCHANGED <<graph, time_steps, beta, gamma, new_state_map, pending,
                   degree_centrality, graph0, draws,
                   betweenness_centrality, main_idx, connections>>

\* RoundsLeft of the inclusive range 0..=time_steps.
RoundsLeftInclusive(done, total) == done <= total

\* The range 0..time_steps still yields.
RoundsLeft(done, total) == done < total

BeginRound ==
    /\ pc = "loop"
    /\ RoundsLeft(step, time_steps)
    /\ new_state_map' = state_map
    /\ pending' = DOMAIN state_map
    /\ pc' = "visit"
    /\ UNCHANGED <<graph, time_steps, beta, gamma, state_map, step,
                   degree_centrality, graph0, draws,
                   betweenness_centrality, main_idx, connections>>

\* ObservedMap of an in-place update: the filter reads the map being written.
ObservedMapInPlace(sm, nsm) == nsm

\* The snapshot the neighbour filter of a visit reads.
ObservedMap(sm, nsm) == sm

\* One iteration of `for (node_index, current_state) in state_map.iter()`:
\* the map yields any key it has not yielded yet.
VisitNode(node_index, r) ==
    /\ pc = "visit"
    /\ node_index \in pending
    /\ LET infected_count ==
               InfectedCount(graph, ObservedMap(state_map, new_state_map), node_index)
           s == NextState(state_map[node_index].state, infected_count, r, beta, gamma)
       IN  new_state_map' =
               [new_state_map EXCEPT ![node_index] = [@ EXCEPT !.state = s]]
    /\ pending' = pending \ {node_index}
    /\ UNCHANGED <<graph, time_steps, beta, gamma, state_map, step, pc,
                   degree_centrality, graph0, betweenness_centrality, main_idx,
                   connections>>

Visit(node_index, r) == VisitNode(node_index, r) /\ UNCHANGED draws

EndRound ==
    /\ pc = "visit"
    /\ pending = {}
    /\ state_map' = new_state_map
    /\ step' = step + 1
    /\ pc' = "loop"
    /\ UNCHANGED <<graph, time_steps, beta, gamma, new_state_map, pending,
                   degree_centrality, graph0, draws,
                   betweenness_centrality, main_idx, connections>>

\* WriteTarget taken from the id field of the entry's value.
WriteTargetById(id, ps) == ps.id

\* The node a snapshot entry (key id, value ps) is written back to.
WriteTarget(id, ps) == id

\* for (id, state) in &state_map { if let Some(node) = node_weight_mut(id) ... }
WrittenBack(g, sm) ==
    LET src(i) == {id \in DOMAIN sm : WriteTarget(id, sm[id]) = i}
    IN  [g EXCEPT !.nodes =
            [i \in NodeIndices(g) |->
                IF src(i) = {} THEN g.nodes[i]
                ELSE [g.nodes[i] EXCEPT !.state = sm[CHOOSE id \in src(i) : TRUE].state]]]

WriteBack ==
    /\ pc = "loop"
    /\ ~RoundsLeft(step, time_steps)
    /\ graph' = WrittenBack(graph, state_map)
    /\ pc' = "done"
    /\ UNCHANGED <<time_steps, beta, gamma, state_map, new_state_map, pending,
                   step, degree_centrality, graph0, draws,
                   betweenness_centrality, main_idx, connections>>

\* -------------------------------------------------------------- centrality
\* Degree counting only the edges that leave the node.
DegreeOutgoing(g, node) ==
    Cardinality({i \in EdgeIndices(g) : g.edges[i].source = node})

\* Degree with the Infected filter of simulate left on the neighbours.
DegreeInfected(g, node) ==
    Cardinality({i \in IncidentEdges(g, node) :
                    g.nodes[OtherEnd(g.edges[i], node)].state = "Infected"})

\* graph.edges(node).count()
Degree(g, node) == Cardinality(IncidentEdges(g, node))

DegreeCentrality(g) == [node \in NodeIndices(g) |-> Degree(g, node)]

\* calculate_degree_centrality borrows the model, so it runs before or after
\* simulate, never inside it.
CalculateDegreeCentrality ==
    /\ pc \in {"new", "done"}
    /\ degree_centrality' = <<DegreeCentrality(graph)>>
    /\ UNCHANGED <<graph, time_steps, beta, gamma, state_map, new_state_map,
                   pending, step, pc, graph0, draws,
                   betweenness_centrality, main_idx, connections>>

\* (e.weight().strength * 100.0) as u32: the strength in hundredths, truncated.
EdgeCost(e) == (e.weight.strength * 100) \div 1000

Min(S) == CHOOSE x \in S : \A y \in S : x <= y

\* One pass of relaxation over the scores found so far: every node an edge
\* leads to from a scored node gets the smallest cost seen for it.
Relax(g, scores) ==
    LET via(n) == {scores[OtherEnd(g.edges[i], n)] + EdgeCost(g.edges[i]) :
                      i \in {j \in IncidentEdges(g, n) :
                                OtherEnd(g.edges[j], n) \in DOMAIN scores}}
        cand(n) == via(n) \cup (IF n \in DOMAIN scores THEN {scores[n]} ELSE {})
    IN  [n \in {n \in NodeIndices(g) : cand(n) # {}} |-> Min(cand(n))]

RECURSIVE ShortestPaths(_, _)
ShortestPaths(g, scores) ==
    LET next == Relax(g, scores)
    IN  IF next = scores THEN scores ELSE ShortestPaths(g, next)

\* dijkstra(&self.graph, node, None, cost): the map from every node reachable
\* from node (node itself included, at cost 0) to the cost of a cheapest path.
Dijkstra(g, node) == ShortestPaths(g, [n \in {node} |-> 0])

\* Counted that recognises the source's own entry by its cost 0.
CountedByCost(node, target, cost) == cost > 0

\* if node != &target
Counted(node, target, cost) == node # target

\* The loop over the sources still to come: each target of the source's
\* shortest-path map other than the source itself gets its entry created at
\* 0 if it has none, and raised by 1.
RECURSIVE CountTargets(_, _, _)
CountTargets(g, sources, centrality) ==
    IF sources = {} THEN centrality
    ELSE LET node == CHOOSE n \in sources : TRUE
             shortest_paths == Dijkstra(g, node)
             targets == {t \in DOMAIN shortest_paths :
                            Counted(node, t, shortest_paths[t])}
         IN  CountTargets(g, sources \ {node},
                 [t \in DOMAIN centrality \cup targets |->
                     (IF t \in DOMAIN centrality THEN centrality[t] ELSE 0)
                       + (IF t \in targets THEN 1 ELSE 0)])

\* The map after the loop over all sources.
Counters(g) == CountTargets(g, NodeIndices(g), <<>>)

\* NormalizationFactor without the guard for n <= 2.
NormalizationFactorUnguarded(n) == ((n - 1) * (n - 2)) \div 2

\* if n <= 2.0 { 1.0 } else { (n-1.0) * (n-2.0) / 2.0 }; (n-1)(n-2) is even.
NormalizationFactor(n) == IF n <= 2 THEN 1 ELSE ((n - 1) * (n - 2)) \div 2

\* The returned map; the value counter / factor is kept as the fraction
\* [num, den] (den = 0 stands for a division by zero).
BetweennessCentrality(g) ==
    LET c == Counters(g)
        f == NormalizationFactor(Cardinality(NodeIndices(g)))
    IN  [t \in DOMAIN c |-> [num |-> c[t], den |-> f]]

CalculateBetweennessCentrality ==
    /\ pc \in {"new", "done"}
    /\ betweenness_centrality' = <<BetweennessCentrality(graph)>>
    /\ UNCHANGED <<graph, time_steps, beta, gamma, state_map, new_state_map,
                   pending, step, pc, degree_centrality, graph0, draws,
                   main_idx, connections>>

\* ----------------------------------------------------------- specification
Next ==
    \/ BeginSimulate
    \/ BeginRound
    \/ \E node_index \in pending, r \in Draws : Visit(node_index, r)
    \/ EndRound
    \/ WriteBack
    \/ CalculateDegreeCentrality

Spec == Init /\ [][Next]_vars

\* ------------------------------------- the centrality analyzer on its own
\* Strengths of (0,1) in thousandths: 0.005, whose cost is 0, and 0.5.
Strengths == {5, 500}

Interactions == [frequency : {5}, strength : Strengths]

WeightedEdgeLists(n) ==
    UNION {[1 .. m -> {e \in [source : Nodes(n), target : Nodes(n), weight : Interactions] :
                          e.source <= e.target}]
             : m \in 0 .. MaxEdges}

\* Graphs as main seeds them (Susceptible or Infected), with any strengths.
WeightedGraphs ==
    UNION {{[nodes |-> [i \in Nodes(n) |-> PersonState(i, st[i])], edges |-> es]
              : st \in [Nodes(n) -> {"Susceptible", "Infected"}],
                es \in WeightedEdgeLists(n)}
             : n \in 0 .. MaxNodes}

InitCentrality ==
    /\ graph \in WeightedGraphs
    /\ time_steps = 0
    /\ beta = 0
    /\ gamma = 0
    /\ state_map = <<>>
    /\ new_state_map = <<>>
    /\ pending = {}
    /\ step = 0
    /\ pc = "new"
    /\ degree_centrality = <<>>
    /\ graph0 = graph
    /\ draws = <<>>
    /\ betweenness_centrality = <<>>
    /\ main_idx = 0
    /\ connections = 0

NextCentrality ==
    \/ CalculateDegreeCentrality
    \/ CalculateBetweennessCentrality

SpecCentrality == InitCentrality /\ [][NextCentrality]_vars

\* ----------------------------- simulate and both centralities, as in main
NextAll ==
    \/ BeginSimulate
    \/ BeginRound
    \/ \E node_index \in pending, r \in Draws : Visit(node_index, r)
    \/ EndRound
    \/ WriteBack
    \/ CalculateDegreeCentrality
    \/ CalculateBetweennessCentrality

SpecAll == Init /\ [][NextAll]_vars

\* ------------------------------------------- the call of SIRModel::new
\* The f64 arguments a caller can pass for beta and gamma, as numerators
\* over Den: the probabilities and a value on either side of [0,1].
Arguments == -1 .. Den + 1

\* Before the call: the variables graph, time_steps, beta and gamma hold the
\* arguments.
InitArgs ==
    /\ graph \in Graphs
    /\ time_steps \in 0 .. MaxSteps
    /\ beta \in Arguments
    /\ gamma \in Arguments
    /\ state_map = <<>>
    /\ new_state_map = <<>>
    /\ pending = {}
    /\ step = 0
    /\ pc = "args"
    /\ degree_centrality = <<>>
    /\ graph0 = graph
    /\ draws = <<>>
    /\ betweenness_centrality = <<>>
    /\ main_idx = 0
    /\ connections = 0

\* SIRModel::new: Self { graph, time_steps, beta, gamma }, whatever they are.
New ==
    /\ pc = "args"
    /\ pc' = "new"
    /\ UNCHANGED <<graph, time_steps, beta, gamma, state_map, new_state_map,
                   pending, step, degree_centrality, graph0, draws,
                   betweenness_centrality, main_idx, connections>>

NextNew ==
    \/ New
    \/ BeginSimulate
    \/ BeginRound
    \/ \E node_index \in pending, r \in Draws : Visit(node_index, r)
    \/ EndRound
    \/ WriteBack

SpecNew == InitArgs /\ [][NextNew]_vars

\* ------------------------------------------------ the generator of main
\* main builds the graph of num_nodes nodes and gives every node
\* average_degree edges of its own (1000 and 15 in main.rs; scaled down here).
num_nodes == 4
average_degree == 1

\* find_edge on a directed graph: only an edge from a to b is found.
FindEdgeDirected(g, a, b) ==
    \E i \in EdgeIndices(g) : g.edges[i].source = a /\ g.edges[i].target = b

\* graph.find_edge(a, b).is_some() on an undirected graph: an edge stored
\* from a to b or from b to a.
FindEdge(g, a, b) ==
    \E i \in EdgeIndices(g) :
        \/ g.edges[i].source = a /\ g.edges[i].target = b
        \/ g.edges[i].source = b /\ g.edges[i].target = a

\* let mut graph = Graph::<PersonState, Interaction, Undirected>::default()
InitMain ==
    /\ graph = [nodes |-> <<>>, edges |-> <<>>]
    /\ time_steps = 0
    /\ beta = 0
    /\ gamma = 0
    /\ state_map = <<>>
    /\ new_state_map = <<>>
    /\ pending = {}
    /\ step = 0
    /\ pc = "nodes"
    /\ degree_centrality = <<>>
    /\ graph0 = graph
    /\ draws = <<>>
    /\ betweenness_centrality = <<>>
    /\ main_idx = 0
    /\ connections = 0

\* graph.add_node(PersonState::new(i, state)), state drawn by gen_bool(0.1)
AddNode(state) ==
    /\ pc = "nodes"
    /\ Cardinality(NodeIndices(graph)) < num_nodes
    /\ LET i == Cardinality(NodeIndices(graph))
       IN  graph' = [graph EXCEPT !.nodes =
                        [n \in 0 .. i |-> IF n < i THEN graph.nodes[n]
                                                   ELSE PersonState(i, state)]]
    /\ UNCHANGED <<time_steps, beta, gamma, state_map, new_state_map, pending,
                   step, pc, degree_centrality, graph0, draws,
                   betweenness_centrality, main_idx, connections>>

\* The node loop is over; the edge loop starts at the first node index with
\* connections = 0.
BeginEdges ==
    /\ pc = "nodes"
    /\ Cardinality(NodeIndices(graph)) = num_nodes
    /\ pc' = "edges"
    /\ main_idx' = 0
    /\ connections' = 0
    /\ UNCHANGED <<graph, time_steps, beta, gamma, state_map, new_state_map,
                   pending, step, degree_centrality, graph0, draws,
                   betweenness_centrality>>

\* One iteration of `while connections < average_degree`: a target is drawn,
\* and the edge is added and counted if the target is another node that no
\* edge joins to idx yet; otherwise nothing changes.
DrawTarget(target_idx, weight) ==
    /\ pc = "edges"
    /\ main_idx < num_nodes
    /\ connections < average_degree
    /\ IF main_idx # target_idx /\ ~FindEdge(graph, main_idx, target_idx)
       THEN /\ graph' = [graph EXCEPT !.edges =
                            Append(@, [source |-> main_idx, target |-> target_idx,
                                       weight |-> weight])]
            /\ connections' = connections + 1
       ELSE UNCHANGED <<graph, connections>>
    /\ UNCHANGED <<time_steps, beta, gamma, state_map, new_state_map, pending,
                   step, pc, degree_centrality, graph0, draws,
                   betweenness_centrality, main_idx>>

\* The while loop ends and the for loop moves to the next node index.
NextNode ==
    /\ pc = "edges"
    /\ main_idx < num_nodes
    /\ ~(connections < average_degree)
    /\ main_idx' = main_idx + 1
    /\ connections' = 0
    /\ UNCHANGED <<graph, time_steps, beta, gamma, state_map, new_state_map,
                   pending, step, pc, degree_centrality, graph0, draws,
                   betweenness_centrality>>

\* The for loop is over: the graph is the one main passes to SIRModel::new.
Built ==
    /\ pc = "edges"
    /\ main_idx = num_nodes
    /\ pc' = "built"
    /\ UNCHANGED <<graph, time_steps, beta, gamma, state_map, new_state_map,
                   pending, step, degree_centrality, graph0, draws,
                   betweenness_centrality, main_idx, connections>>

NextMain ==
    \/ \E state \in {"Susceptible", "Infected"} : AddNode(state)
    \/ BeginEdges
    \/ \E target_idx \in Nodes(num_nodes), weight \in Interaction :
          DrawTarget(target_idx, weight)
    \/ NextNode
    \/ Built

SpecMain == InitMain /\ [][NextMain]_vars

\* Inside the while loop of the generator.
Generating == pc = "edges" /\ main_idx < num_nodes /\ connections < average_degree

\* The targets whose draw adds an edge for the node the loop is at.
FreshTargets ==
    {t \in Nodes(num_nodes) : main_idx # t /\ ~FindEdge(graph, main_idx, t)}

\* ------------------------------------------ runs with their draws on record
\* A visit that also records the draw it took from rng.  A Recovered node
\* takes no draw; a Susceptible or Infected one takes exactly one.
VisitLogged(node_index, r) ==
    /\ VisitNode(node_index, r)
    /\ draws' = IF state_map[node_index].state = "Recovered"
                THEN draws ELSE Append(draws, r)

NextDet ==
    \/ BeginSimulate
    \/ BeginRound
    \/ \E node_index \in pending, r \in Draws : VisitLogged(node_index, r)
    \/ EndRound
    \/ WriteBack

SpecDet == Init /\ [][NextDet]_vars

\* One round in which the map yields its keys in index order, from key v on,
\* taking its draws from the front of ds.  The result is <<map, rest of ds>>,
\* or <<>> when ds is too short.
RECURSIVE RoundInIndexOrder(_, _, _, _, _)
RoundInIndexOrder(g, sm, nsm, v, ds) ==
    IF v \notin DOMAIN sm THEN <<nsm, ds>>
    ELSE IF sm[v].state = "Recovered" THEN RoundInIndexOrder(g, sm, nsm, v + 1, ds)
    ELSE IF ds = <<>> THEN <<>>
    ELSE LET s == NextState(sm[v].state, InfectedCount(g, sm, v), Head(ds), beta, gamma)
         IN  RoundInIndexOrder(g, sm, [nsm EXCEPT ![v] = [@ EXCEPT !.state = s]],
                               v + 1, Tail(ds))

\* The snapshot after the given number of rounds run that way: <<map>>, or
\* <<>> when ds is too short.
RECURSIVE RunInIndexOrder(_, _, _, _)
RunInIndexOrder(g, sm, rounds, ds) ==
    IF rounds = 0 THEN <<sm>>
    ELSE LET res == RoundInIndexOrder(g, sm, sm, 0, ds)
         IN  IF res = <<>> THEN <<>>
             ELSE RunInIndexOrder(g, res[1], rounds - 1, res[2])

\* ------------------------------------------------------- shared vocabulary
StateOf(m, v) == m[v].state

\* The steps of simulate that close a round (state_map = new_state_map).
RoundCloses == pc = "visit" /\ pc' = "loop"

\* The neighbours of v, each once.
NeighborSet(g, v) == {OtherEnd(g.edges[i], v) : i \in IncidentEdges(g, v)}

\* Some node has been moved by the rounds run so far.
SomethingChanged == \E v \in DOMAIN state_map : StateOf(state_map, v) # graph0.nodes[v].state

\* -------------------------------------------------------------------- C1
\* The states a node in state s with k Infected neighbours can end a round in.
Outcomes(s, k) == {NextState(s, k, r, beta, gamma) : r \in Draws}

\* C1: every round is synchronous.  Over each step that closes a round, the
\* new state of every node is one of the outcomes fixed by its own state and
\* the number of Infected neighbours in the snapshot the round started from,
\* and a node that goes Susceptible -> Infected had a neighbour that was
\* Infected in that snapshot, whatever order the nodes were visited in.
C1_SynchronousRound ==
    [][RoundCloses =>
        \A v \in DOMAIN state_map :
            /\ StateOf(state_map', v) \in
                   Outcomes(StateOf(state_map, v), InfectedCount(graph, state_map, v))
            /\ (StateOf(state_map, v) = "Susceptible" /\ StateOf(state_map', v) = "Infected")
                   => \E n \in NeighborSet(graph, v) : StateOf(state_map, n) = "Infected"]_vars

\* C1 witness: in a round with beta = 1, a neighbour n of v has just become
\* Infected, and v, visited too and with no neighbour Infected in the
\* snapshot, is still Susceptible.
C1_Witness ==
    /\ pc = "visit"
    /\ beta = Den
    /\ \E v \in DOMAIN state_map : \E n \in NeighborSet(graph, v) :
          /\ v \notin pending /\ n \notin pending
          /\ StateOf(state_map, n) = "Susceptible" /\ StateOf(new_state_map, n) = "Infected"
          /\ StateOf(state_map, v) = "Susceptible" /\ StateOf(new_state_map, v) = "Susceptible"
          /\ InfectedCount(graph, state_map, v) = 0

\* -------------------------------------------------------------------- C2
PermittedInOneRound ==
    {<<"Susceptible", "Susceptible">>, <<"Susceptible", "Infected">>,
     <<"Infected", "Infected">>, <<"Infected", "Recovered">>,
     <<"Recovered", "Recovered">>}

\* C2: transitions are monotonic.  Every step of a round leaves each node of
\* the working map in a state permitted after its snapshot state, every step
\* that replaces the snapshot makes only permitted per-round changes, and a
\* Recovered node stays Recovered in the snapshot and in the final graph.
C2_Monotonic ==
    [][/\ pc' = "visit" =>
            \A v \in DOMAIN state_map' :
                <<StateOf(state_map', v), StateOf(new_state_map', v)>> \in PermittedInOneRound
       /\ pc # "new" =>
            \A v \in DOMAIN state_map :
                /\ <<StateOf(state_map, v), StateOf(state_map', v)>> \in PermittedInOneRound
       /\ pc' = "done" =>
            \A v \in DOMAIN state_map :
                (graph0.nodes[v].state = "Recovered" \/ StateOf(state_map, v) = "Recovered")
                    => graph'.nodes[v].state = "Recovered"
      ]_vars

\* C2 witness: after two rounds a node that started Susceptible is Recovered.
C2_Witness ==
    /\ pc = "done"
    /\ \E v \in NodeIndices(graph) :
          graph0.nodes[v].state = "Susceptible" /\ graph.nodes[v].state = "Recovered"

\* -------------------------------------------------------------------- C3
Count(m, s) == Cardinality({v \in DOMAIN m : StateOf(m, v) = s})

Conserved(m) ==
    /\ DOMAIN m = NodeIndices(graph)
    /\ Count(m, "Susceptible") + Count(m, "Infected") + Count(m, "Recovered")
         = Cardinality(NodeIndices(graph))

\* C3: conservation.  From the start of simulate on, the snapshot (and the
\* working map of a round) holds one state for each of the N graph nodes, the
\* three counts add up to N, and N is the node count SIRModel::new was given.
C3_Conservation ==
    /\ Cardinality(NodeIndices(graph)) = Cardinality(NodeIndices(graph0))
    /\ pc # "new" => Conserved(state_map)
    /\ pc = "visit" => Conserved(new_state_map)

\* C3 witness: simulate has ended on three nodes, one in each state, after
\* the rounds changed something.
C3_Witness ==
    /\ pc = "done"
    /\ SomethingChanged
    /\ \A s \in State : Count(state_map, s) = 1

\* -------------------------------------------------------------------- C4
\* C4: zero-transmission.  With beta = 0 no step turns a Susceptible node of
\* the snapshot Infected, in the working map or in the next snapshot, and a
\* node Susceptible in the graph given to simulate is Susceptible in the
\* final graph.
C4_ZeroTransmission ==
    [][(beta = 0 /\ pc # "new") =>
        \A v \in DOMAIN state_map :
            /\ StateOf(state_map, v) = "Susceptible" =>
                  /\ StateOf(state_map', v) = "Susceptible"
                  /\ pc' = "visit" => StateOf(new_state_map', v) = "Susceptible"
            /\ (pc' = "done" /\ graph0.nodes[v].state = "Susceptible")
                  => graph'.nodes[v].state = "Susceptible"]_vars

\* C4 witness: beta = 0 and gamma = 0, a Susceptible node next to an Infected
\* one, and two rounds later both are as they were.
C4_Witness ==
    /\ pc = "done"
    /\ beta = 0 /\ gamma = 0 /\ step = 2
    /\ \E v \in NodeIndices(graph) : \E n \in NeighborSet(graph, v) :
          /\ graph0.nodes[v].state = "Susceptible" /\ graph0.nodes[n].state = "Infected"
          /\ graph.nodes[v].state = "Susceptible" /\ graph.nodes[n].state = "Infected"

\* -------------------------------------------------------------------- C5
\* C5: full recovery.  With gamma = 1 every node Infected in the snapshot a
\* round starts from is Recovered once it has been visited, and Recovered in
\* the snapshot the round ends with.
C5_FullRecovery ==
    [][(gamma = Den /\ pc = "visit") =>
        \A v \in DOMAIN state_map :
            StateOf(state_map, v) = "Infected" =>
                /\ v \notin pending' => StateOf(new_state_map', v) = "Recovered"
                /\ pc' = "loop" => StateOf(state_map', v) = "Recovered"]_vars

\* C5 witness: gamma = 1, the first round is over, and a node Infected in the
\* graph (the state the round started from) is Recovered in the snapshot.
C5_Witness ==
    /\ pc = "loop" /\ step = 1
    /\ gamma = Den
    /\ \E v \in NodeIndices(graph) :
          graph.nodes[v].state = "Infected" /\ StateOf(state_map, v) = "Recovered"

\* -------------------------------------------------------------------- C6
IsolatedSusceptible(v) ==
    /\ graph0.nodes[v].state = "Susceptible"
    /\ \A i \in EdgeIndices(graph0) :
          graph0.edges[i].source # v /\ graph0.edges[i].target # v

\* C6: isolation.  A node of degree 0 that is Susceptible before simulate is
\* Susceptible in every snapshot, in every working map and in the final graph.
C6_Isolation ==
    \A v \in NodeIndices(graph0) :
        IsolatedSusceptible(v) =>
            /\ graph.nodes[v].state = "Susceptible"
            /\ pc # "new" => StateOf(state_map, v) = "Susceptible"
            /\ pc = "visit" => StateOf(new_state_map, v) = "Susceptible"

\* C6 witness: beta = 1, two rounds done, an isolated node is still
\* Susceptible although another node was Infected from the start.
C6_Witness ==
    /\ pc = "done"
    /\ beta = Den /\ step = 2
    /\ \E v \in NodeIndices(graph0) : \E n \in NodeIndices(graph0) :
          /\ IsolatedSusceptible(v)
          /\ graph0.nodes[n].state = "Infected"
          /\ graph.nodes[v].state = "Susceptible"

\* -------------------------------------------------------------------- C7
simvars == <<graph, state_map, new_state_map, pending, step, pc>>

SimulateStep ==
    \/ BeginSimulate
    \/ BeginRound
    \/ \E node_index \in pending, r \in Draws : Visit(node_index, r)
    \/ EndRound
    \/ WriteBack

\* The number of steps simulate has left at most; PerRound is what one round
\* costs (its opening, a visit per node).
PerRound == Cardinality(NodeIndices(graph0)) + 2

Remaining ==
    CASE pc = "new"   -> time_steps * PerRound + 2
      [] pc = "loop"  -> (time_steps - step) * PerRound + 1
      [] pc = "visit" -> (time_steps - step - 1) * PerRound + 2 + Cardinality(pending)
      [] OTHER        -> 0

\* C7: simulate terminates after exactly time_steps rounds.  Every step of
\* simulate lowers the natural number Remaining, simulate can always take a
\* step until it is done, the write-back happens with step = time_steps, and
\* with time_steps = 0 the graph after simulate is the graph before.
C7_ExactlyTimeStepsRounds ==
    /\ [](Remaining \in Nat)
    /\ [](pc # "done" => ENABLED SimulateStep)
    /\ [][Remaining' < Remaining]_simvars
    /\ [](pc = "done" => (step = time_steps /\ (time_steps = 0 => graph = graph0)))

\* C7 witness: simulate is done with time_steps = 0 on a graph one round
\* would have changed (gamma = 1 and an Infected node).
C7_Witness ==
    /\ pc = "done"
    /\ time_steps = 0 /\ gamma = Den
    /\ \E v \in NodeIndices(graph) : graph.nodes[v].state = "Infected"

\* -------------------------------------------------------------------- C8
\* C8: the rounds never mutate the graph.  Until the write-back the graph is
\* the graph given to SIRModel::new; after it the edges, the node count and
\* every id are the same and each node holds the final snapshot's state for
\* its index.
C8_OnlyWriteBackMutates ==
    /\ pc # "done" => graph = graph0
    /\ pc = "done" =>
          /\ graph.edges = graph0.edges
          /\ NodeIndices(graph) = NodeIndices(graph0)
          /\ \A i \in NodeIndices(graph) :
                /\ graph.nodes[i].id = graph0.nodes[i].id
                /\ graph.nodes[i].state = StateOf(state_map, i)

\* C8 witness: simulate is done on a graph whose ids differ from the indices
\* (the test graph: ids 1 and 2), and the rounds changed a state.
C8_Witness ==
    /\ pc = "done"
    /\ SomethingChanged
    /\ NodeIndices(graph) = {0, 1}
    /\ graph.nodes[0].id = 1 /\ graph.nodes[1].id = 2

\* ------------------------------------------------------------------- C10
RECURSIVE IncidentCount(_, _)
IncidentCount(es, v) ==
    IF es = <<>> THEN 0
    ELSE (IF Head(es).source = v \/ Head(es).target = v THEN 1 ELSE 0)
            + IncidentCount(Tail(es), v)

RECURSIVE SumOver(_, _)
SumOver(f, S) ==
    IF S = {} THEN 0
    ELSE LET x == CHOOSE y \in S : TRUE IN f[x] + SumOver(f, S \ {x})

\* No self-loop and no two edges between the same pair of nodes.
Simple(g) ==
    /\ \A i \in EdgeIndices(g) : g.edges[i].source # g.edges[i].target
    /\ \A i, j \in EdgeIndices(g) :
          i # j => {g.edges[i].source, g.edges[i].target}
                     # {g.edges[j].source, g.edges[j].target}

\* The path A-B-C on the nodes 0, 1, 2.
IsPath(g) ==
    /\ NodeIndices(g) = {0, 1, 2}
    /\ {{g.edges[i].source, g.edges[i].target} : i \in EdgeIndices(g)} = {{0, 1}, {1, 2}}
    /\ Len(g.edges) = 2

\* C10: the degree mapping has exactly the node indices as keys and each
\* value is the raw number of edges of the edge list incident to the node; on
\* a simple graph that is the number of distinct neighbours and the values
\* sum to twice the edge count; the path A-B-C gives 1, 2, 1.
C10_DegreeCentrality ==
    degree_centrality # <<>> =>
        LET d == degree_centrality[1] IN
        /\ DOMAIN d = NodeIndices(graph)
        /\ \A v \in NodeIndices(graph) : d[v] = IncidentCount(graph.edges, v)
        /\ Simple(graph) =>
              /\ \A v \in NodeIndices(graph) : d[v] = Cardinality(NeighborSet(graph, v) \ {v})
              /\ SumOver(d, DOMAIN d) = 2 * Len(graph.edges)
        /\ IsPath(graph) => (d[0] = 1 /\ d[1] = 2 /\ d[2] = 1)

\* C10 witness: the degree mapping of the path A-B-C has been computed.
C10_Witness ==
    /\ degree_centrality # <<>>
    /\ IsPath(graph)
    /\ degree_centrality[1][1] = 2

\* -------------------------------------------------------------------- C9
\* C9: determinism.  A run is fixed by its inputs and by the sequence of
\* draws it is given: after every round, and in the final graph, the states
\* are those of the run on the same graph, parameters and draws in which the
\* snapshot map yields its keys in index order (itself one of the runs the
\* program can make), so no two runs on the same inputs and draws differ.
C9_Determinism ==
    pc \in {"loop", "done"} =>
        LET ref == RunInIndexOrder(graph0, Snapshot(graph0), step, draws) IN
        ref # <<>> =>
            /\ state_map = ref[1]
            /\ pc = "done" =>
                  \A v \in NodeIndices(graph) : graph.nodes[v].state = StateOf(ref[1], v)

\* ------------------------------------------------------------------- C11
\* The nodes reachable from the nodes of S along edges.
RECURSIVE ReachableFrom(_, _)
ReachableFrom(g, S) ==
    LET T == S \cup UNION {NeighborSet(g, v) : v \in S}
    IN  IF T = S THEN S ELSE ReachableFrom(g, T)

\* c(t): the sources other than t from which t is reachable.
SourcesReaching(g, t) ==
    {src \in NodeIndices(g) \ {t} : t \in ReachableFrom(g, {src})}

\* The two-node graph with one edge of strength 0.5.
IsTestPair(g) ==
    /\ NodeIndices(g) = {0, 1}
    /\ Len(g.edges) = 1
    /\ {g.edges[1].source, g.edges[1].target} = {0, 1}
    /\ g.edges[1].weight.strength = 500

\* C11: every node t reachable from another node gets the value c(t) / F,
\* with c(t) the number of other nodes t is reachable from and
\* F = (N-1)(N-2)/2 for N > 2, F = 1 for N <= 2; nothing is divided by zero,
\* and the two-node test graph yields 1.0 for both nodes.
C11_ReachabilityScore ==
    betweenness_centrality # <<>> =>
        LET b == betweenness_centrality[1]
            N == Cardinality(NodeIndices(graph))
        IN
        /\ \A t \in NodeIndices(graph) :
              SourcesReaching(graph, t) # {} =>
                  /\ t \in DOMAIN b
                  /\ b[t].num = Cardinality(SourcesReaching(graph, t))
                  /\ N > 2 => 2 * b[t].den = (N - 1) * (N - 2)
                  /\ N <= 2 => b[t].den = 1
        /\ \A t \in DOMAIN b : b[t].den # 0
        /\ IsTestPair(graph) => \A t \in {0, 1} : b[t] = [num |-> 1, den |-> 1]

\* C11 witness: the scores of the two-node test graph have been computed.
C11_Witness ==
    /\ betweenness_centrality # <<>>
    /\ IsTestPair(graph)
    /\ DOMAIN betweenness_centrality[1] = {0, 1}

\* ------------------------------------------------------------------- C12
\* C12: the betweenness mapping has an entry for every node of the graph,
\* and a node reachable from no other node has the value 0.
C12_EntryForEveryNode ==
    betweenness_centrality # <<>> =>
        LET b == betweenness_centrality[1] IN
        /\ DOMAIN b = NodeIndices(graph)
        /\ \A t \in NodeIndices(graph) : SourcesReaching(graph, t) = {} => b[t].num = 0

\* ------------------------------------------------------------------- C20
\* The graph g with the strength of edge i replaced by w[i].
WithStrengths(g, w) ==
    [g EXCEPT !.edges =
        [i \in EdgeIndices(g) |-> [g.edges[i] EXCEPT !.weight.strength = w[i]]]]

\* C20: the betweenness mapping does not depend on the strengths: it is the
\* mapping of the same graph under every other assignment of strengths
\* (those of cost 0 included), and the counter of every returned node is the
\* size of its connected component minus 1.
C20_StrengthIndependent ==
    betweenness_centrality # <<>> =>
        LET b == betweenness_centrality[1] IN
        /\ \A w \in [EdgeIndices(graph) -> Strengths] :
              BetweennessCentrality(WithStrengths(graph, w)) = b
        /\ \A t \in DOMAIN b :
              b[t].num = Cardinality(ReachableFrom(graph, {t})) - 1

\* C20 witness: the scores of a path 0 - 1 - 2 whose edges have costs 0 and
\* 50 have been computed, and every node counts its two fellows.
C20_Witness ==
    /\ betweenness_centrality # <<>>
    /\ IsPath(graph)
    /\ {EdgeCost(graph.edges[i]) : i \in EdgeIndices(graph)} = {0, 50}
    /\ \A t \in NodeIndices(graph) : betweenness_centrality[1][t].num = 2

\* ------------------------------------------------------------------- C13
\* The graph g with every node Susceptible.
AllSusceptible(g) ==
    [g EXCEPT !.nodes = [i \in NodeIndices(g) |-> [g.nodes[i] EXCEPT !.state = "Susceptible"]]]

\* C13: the centralities are read-only and independent of the epidemic
\* state.  A step that changes a centrality result leaves the graph as it
\* was; and whenever simulate is not running, each result on record, whether
\* computed before simulate or after it, is the result for the graph as it
\* is now and for the same graph with every node Susceptible.
C13_CentralityIgnoresState ==
    /\ [][(degree_centrality' # degree_centrality
            \/ betweenness_centrality' # betweenness_centrality) => graph' = graph]_vars
    /\ []((pc \in {"new", "done"} /\ degree_centrality # <<>>) =>
            /\ degree_centrality[1] = DegreeCentrality(graph)
            /\ degree_centrality[1] = DegreeCentrality(AllSusceptible(graph)))
    /\ []((pc \in {"new", "done"} /\ betweenness_centrality # <<>>) =>
            /\ betweenness_centrality[1] = BetweennessCentrality(graph)
            /\ betweenness_centrality[1] = BetweennessCentrality(AllSusceptible(graph)))

\* C13 witness: simulate has changed a state of a graph with an edge, and
\* both centrality results are on record.
C13_Witness ==
    /\ pc = "done"
    /\ SomethingChanged
    /\ graph.edges # <<>>
    /\ degree_centrality # <<>>
    /\ betweenness_centrality # <<>>

\* ------------------------------------------------------------------- C14
\* C14: invalid parameters are rejected at construction.  A model exists,
\* and simulate runs, only with beta and gamma in [0,1].
C14_ParametersValidated ==
    pc # "args" => (beta \in Probabilities /\ gamma \in Probabilities)

\* ------------------------------------------------------------------- C16
\* C16: the graph the generator of main builds is simple at every point of
\* its construction and when it is handed to SIRModel::new: no self-loop and
\* at most one edge between any unordered pair of nodes.
C16_GeneratedGraphSimple ==
    pc \in {"nodes", "edges", "built"} => Simple(graph)

\* The generator has finished with every edge in place, one of them stored
\* from a higher to a lower index.
C16_Witness ==
    /\ pc = "built"
    /\ Len(graph.edges) = num_nodes * average_degree
    /\ \E i \in EdgeIndices(graph) : graph.edges[i].target < graph.edges[i].source

\* ------------------------------------------------------------------- C17
\* C17: the edge loop of main terminates whenever num_nodes > average_degree:
\* while a node still lacks edges of its own, some target can be drawn that
\* adds one.
C17_LoopCanProgress ==
    (num_nodes > average_degree /\ Generating) => FreshTargets # {}

\* ------------------------------------------------------------------- C18
\* A round is about to start, or is running, on a snapshot without Infected.
Extinct == pc \in {"loop", "visit"} /\ Count(state_map, "Infected") = 0

\* C18: extinction is a fixed point.  Once the snapshot of a round holds no
\* Infected node, every step of simulate leaves the snapshot as it is, the
\* working map of every round equals it after every visit, and the graph
\* written back holds its states.
C18_ExtinctionFixedPoint ==
    [][Extinct =>
        /\ state_map' = state_map
        /\ pc' = "visit" => new_state_map' = state_map
        /\ pc' = "done" =>
              \A v \in NodeIndices(graph) : graph'.nodes[v].state = StateOf(state_map, v)]_vars

\* C18 witness: beta = 1 and gamma = 1, the only Infected node has no edge and
\* recovers in round one; round two runs on a snapshot without Infected and a
\* Susceptible node with a neighbour is Susceptible in the final graph.
C18_Witness ==
    /\ pc = "done"
    /\ beta = Den /\ gamma = Den /\ step = 2
    /\ \E v \in NodeIndices(graph0) :
          /\ graph0.nodes[v].state = "Infected"
          /\ IncidentEdges(graph0, v) = {}
          /\ \A n \in NodeIndices(graph0) \ {v} : graph0.nodes[n].state # "Infected"
          /\ graph.nodes[v].state = "Recovered"
    /\ \E w \in NodeIndices(graph) :
          /\ graph.nodes[w].state = "Susceptible"
          /\ NeighborSet(graph, w) # {}

\* ------------------------------------------------------------------- C19
\* C19: with beta = 1, over every step that closes a round, a node that is
\* Susceptible in the snapshot is Infected in the next snapshot if and only
\* if at least one of its neighbours is Infected in the snapshot, whatever
\* the draws.
C19_CertainTransmission ==
    [][(beta = Den /\ RoundCloses) =>
        \A v \in DOMAIN state_map :
            StateOf(state_map, v) = "Susceptible" =>
                (StateOf(state_map', v) = "Infected"
                    <=> InfectedCount(graph, state_map, v) >= 1)]_vars

\* C19 witness: beta = 1 and one round done; a Susceptible node with an
\* Infected neighbour is now Infected, and a Susceptible node whose
\* neighbours were not Infected is still Susceptible.
C19_Witness ==
    /\ pc = "loop"
    /\ beta = Den /\ step = 1
    /\ \E v, w \in NodeIndices(graph) :
          /\ graph.nodes[v].state = "Susceptible"
          /\ InfectedCount(graph, graph.nodes, v) >= 1
          /\ StateOf(state_map, v) = "Infected"
          /\ graph.nodes[w].state = "Susceptible"
          /\ NeighborSet(graph, w) # {}
          /\ InfectedCount(graph, graph.nodes, w) = 0
          /\ StateOf(state_map, w) = "Susceptible"

====
